---- MODULE Spec2Model ----
(***************************************************************************)
(* Model of the vulnerability report presenter (src/src/presenter.rs).     *)
(*                                                                         *)
(* The Presenter owns displayed_packages and config.  Standard output is   *)
(* observed as the sequence `out` of the lines written by the operation in *)
(* progress (or by the last one, until the caller takes it).  A panic      *)
(* (expect / unwrap / map index) ends the run in pc = "panicked".          *)
(***************************************************************************)
EXTENDS Integers, Sequences, FiniteSets, TLC

VARIABLES
    displayed_packages, \* Presenter.displayed_packages : Set<Dependency>
    config,             \* Presenter.config : OutputConfig
    out,                \* lines written to stdout by the current operation
    pc,                 \* position of the caller / of print_report
    op,                 \* the operation in progress or last completed
    report,             \* print_report's `report` argument
    lockfile,           \* the `lockfile` argument
    tree,               \* print_report's local `tree`
    idx,                \* position of the running `for` loop
    pre                 \* displayed_packages when print_report was entered

vars == <<displayed_packages, config, out, pc, op, report, lockfile, tree, idx, pre>>

(***************************************************************************)
(* Bounds and input sets                                                   *)
(***************************************************************************)
\* Most findings (vulnerabilities.list and warnings together) in one report.
MaxFindings == 3

\* Values of the report's vulnerabilities.count field.
Counts == {0, 1, 2}

\* Most patched version requirements in one vulnerability.
MaxPatched == 2

None == <<>>
Some(x) == <<x>>
IsSome(o) == o # <<>>
Unwrap(o) == o[1]

\* Option::unwrap_or
UnwrapOr(o, d) == IF IsSome(o) THEN Unwrap(o) ELSE d

(***************************************************************************)
(* Packages, dependencies, lockfiles and the dependency tree               *)
(***************************************************************************)
\* Dependency::from(package): the identity of a package is its name, version
\* and source; its own dependency list is dropped.
DependencyFrom(package) ==
    [name |-> package.name, version |-> package.version, source |-> package.source]

DepFoo == [name |-> "foo", version |-> <<1, 0, 0>>, source |-> "registry"]
DepBar == [name |-> "bar", version |-> <<0, 1, 0>>, source |-> "registry"]
DepApp == [name |-> "app", version |-> <<0, 0, 1>>, source |-> "path"]

PkgFoo == [name |-> "foo", version |-> <<1, 0, 0>>, source |-> "registry",
           dependencies |-> {}]
PkgBar == [name |-> "bar", version |-> <<0, 1, 0>>, source |-> "registry",
           dependencies |-> {DepFoo}]
PkgApp == [name |-> "app", version |-> <<0, 0, 1>>, source |-> "path",
           dependencies |-> {DepBar, DepFoo}]
PkgAppDirect == [name |-> "app", version |-> <<0, 0, 1>>, source |-> "path",
                 dependencies |-> {DepFoo}]

\* app -> bar -> foo, app -> foo: every finding's package is a node.
LockFull == [packages |-> <<PkgApp, PkgBar, PkgFoo>>]
\* app -> foo only: bar is not a package of this lockfile.
LockNoBar == [packages |-> <<PkgAppDirect, PkgFoo>>]
\* app depends on bar, which the lockfile does not list: no tree can be built.
LockBroken == [packages |-> <<PkgApp, PkgFoo>>]

Lockfiles == {LockFull, LockNoBar, LockBroken}
LockfilePaths == {"Cargo.lock", "fuzz/Cargo.lock"}

Range(s) == {s[i] : i \in 1..Len(s)}

LockDeps(l) == {DependencyFrom(p) : p \in Range(l.packages)}

\* lockfile.dependency_tree() is Ok iff every dependency of every package
\* resolves to a package of the lockfile.
TreeOk(l) == \A p \in Range(l.packages) : p.dependencies \subseteq LockDeps(l)

\* The tree: its nodes (in lockfile order) and its edges <<dependent, dependency>>.
DependencyTree(l) ==
    [order |-> [i \in 1..Len(l.packages) |-> DependencyFrom(l.packages[i])],
     edges |-> UNION {{<<DependencyFrom(p), d>> : d \in p.dependencies} :
                        p \in Range(l.packages)}]

NoTree == [order |-> <<>>, edges |-> {}]

\* tree.nodes(): the map from Dependency to node index; its key set.
TreeNodes(t) == Range(t.order)

VersionToString(v) == ToString(v[1]) \o "." \o ToString(v[2]) \o "." \o ToString(v[3])

RECURSIVE Indent(_)
Indent(n) == IF n = 0 THEN "" ELSE "    " \o Indent(n - 1)

Line(kind, color, label, content) ==
    [kind |-> kind, color |-> color, label |-> label, content |-> content]

TreeLine(depth, d) ==
    Line("tree", "", "", Indent(depth) \o d.name \o " " \o VersionToString(d.version))

\* The nodes with an edge into `node`, in node order (EdgeDirection::Incoming).
Incoming(t, node) == SelectSeq(t.order, LAMBDA d : <<d, node>> \in t.edges)

\* tree.render(stdout, node, Incoming): the node, then each dependent's subtree
\* one level deeper.
RECURSIVE Render(_, _, _)
RECURSIVE RenderAll(_, _, _)
Render(t, node, depth) ==
    <<TreeLine(depth, node)>> \o RenderAll(t, Incoming(t, node), depth + 1)
RenderAll(t, nodes, depth) ==
    IF nodes = <<>> THEN <<>>
    ELSE Render(t, Head(nodes), depth) \o RenderAll(t, Tail(nodes), depth)

(***************************************************************************)
(* Advisories, findings and reports                                        *)
(***************************************************************************)
\* advisory.id.url(): the canonical URL of an identifier of a known kind.
IdUrl(id) ==
    CASE id.kind = "RUSTSEC" -> Some("https://rustsec.org/advisories/" \o id.str)
      [] id.kind = "CVE" -> Some("https://cve.mitre.org/cgi-bin/cvename.cgi?name=" \o id.str)
      [] OTHER -> None

AdvRustsec == [id |-> [kind |-> "RUSTSEC", str |-> "RUSTSEC-2019-0001"],
               date |-> "2019-01-01", title |-> "Use after free",
               url |-> Some("https://example.com/foo/issues/1")]
AdvOther == [id |-> [kind |-> "Other", str |-> "VULN-7"],
             date |-> "2019-02-02", title |-> "Out of bounds read",
             url |-> None]
AdvUnmaintained == [id |-> [kind |-> "Other", str |-> "NOTICE-3"],
                    date |-> "2019-03-03", title |-> "foo is unmaintained",
                    url |-> Some("https://example.com/foo/issues/2")]
AdvYanked == [id |-> [kind |-> "CVE", str |-> "CVE-2019-0004"],
              date |-> "2019-04-04", title |-> "bar was yanked",
              url |-> None]

\* A patched version requirement and its Display form.
Req(o, v) == [op |-> o, version |-> v]
ReqToString(r) == r.op \o VersionToString(r.version)

VulnFoo == [advisory |-> AdvRustsec, package |-> PkgFoo,
            versions |-> [patched |-> <<Req(">=", <<1, 2, 3>>), Req("^", <<2, 0, 0>>)>>]]
VulnBar == [advisory |-> AdvOther, package |-> PkgBar,
            versions |-> [patched |-> <<>>]]
WarnFoo == [advisory |-> AdvUnmaintained, package |-> PkgFoo]
WarnBar == [advisory |-> AdvYanked, package |-> PkgBar]

Vulnerabilities == {VulnFoo, VulnBar}
Warnings == {WarnFoo, WarnBar}

SeqsUpTo(S, n) == UNION {[1..k -> S] : k \in 0..n}

\* rustsec::Report: the fields are public, found and count are stored fields
\* and not recomputed from the list.
Reports ==
    {[vulnerabilities |-> [found |-> f, count |-> c, list |-> l], warnings |-> w] :
        f \in BOOLEAN, c \in Counts,
        l \in SeqsUpTo(Vulnerabilities, MaxFindings),
        w \in SeqsUpTo(Warnings, MaxFindings)}

BoundedReports == {r \in Reports :
                     Len(r.vulnerabilities.list) + Len(r.warnings) <= MaxFindings}

\* Findings about one package with every kind of identifier, with and without
\* an explicit url, and with every list of patched requirements.
AttrIds == {[kind |-> "RUSTSEC", str |-> "RUSTSEC-2020-0002"],
            [kind |-> "CVE", str |-> "CVE-2020-0003"],
            [kind |-> "Other", str |-> "ADV-9"]}
AttrAdvisories ==
    [id : AttrIds, date : {"2020-05-05"}, title : {"Data race"},
     url : {None, Some("https://example.com/advisory/9")}]
AttrReqs == {Req(">=", <<1, 2, 3>>), Req("^", <<2, 0, 0>>)}
AttrVulnerabilities ==
    [advisory : AttrAdvisories, package : {PkgFoo},
     versions : [patched : SeqsUpTo(AttrReqs, MaxPatched)]]
AttrWarnings == [advisory : AttrAdvisories, package : {PkgFoo}]

\* Reports with one such finding.
AttrReports ==
    {[vulnerabilities |-> [found |-> f, count |-> 1, list |-> <<v>>], warnings |-> <<>>] :
        f \in BOOLEAN, v \in AttrVulnerabilities}
    \cup
    {[vulnerabilities |-> [found |-> f, count |-> 1, list |-> <<>>], warnings |-> <<w>>] :
        f \in BOOLEAN, w \in AttrWarnings}

NoReport == [vulnerabilities |-> [found |-> FALSE, count |-> 0, list |-> <<>>],
             warnings |-> <<>>]
NoLockfile == [packages |-> <<>>]

Configs == [format : {"Human", "Json"}, quiet : BOOLEAN,
            show_tree : {None, Some(TRUE), Some(FALSE)}]

(***************************************************************************)
(* Output primitives                                                       *)
(***************************************************************************)
StatusOk(label, msg) == Line("status", "Green", label, msg)
StatusErr(msg) == Line("status", "Red", "error:", msg)
StatusWarn(msg) == Line("status", "Yellow", "warning:", msg)
Blank == Line("blank", "", "", "")

\* Presenter::print_attr
PrintAttr(color, attr, content) == Line("attr", color, attr, content)

\* [String]::join
RECURSIVE Join(_, _)
Join(strs, sep) ==
    IF strs = <<>> THEN ""
    ELSE IF Len(strs) = 1 THEN strs[1]
    ELSE strs[1] \o sep \o Join(Tail(strs), sep)

\* serde_json::to_writer(stdout, &report): one JSON document, objects as
\* sequences of <<key, value>> members in field order.
VulnerabilityJson(v) ==
    <<<<"advisory", v.advisory>>, <<"versions", v.versions>>, <<"package", v.package>>>>
WarningJson(w) == <<<<"package", w.package>>, <<"advisory", w.advisory>>>>
\* A serialization that recounts the vulnerabilities instead of writing the
\* stored count.
ToJsonRecount(r) ==
    <<<<"vulnerabilities",
        <<<<"found", r.vulnerabilities.found>>,
          <<"count", Len(r.vulnerabilities.list)>>,
          <<"list", [i \in 1..Len(r.vulnerabilities.list) |->
                        VulnerabilityJson(r.vulnerabilities.list[i])]>>>>>>,
      <<"warnings", [i \in 1..Len(r.warnings) |-> WarningJson(r.warnings[i])]>>>>

ToJson(r) ==
    <<<<"vulnerabilities",
        <<<<"found", r.vulnerabilities.found>>,
          <<"count", r.vulnerabilities.count>>,
          <<"list", [i \in 1..Len(r.vulnerabilities.list) |->
                        VulnerabilityJson(r.vulnerabilities.list[i])]>>>>>>,
      <<"warnings", [i \in 1..Len(r.warnings) |-> WarningJson(r.warnings[i])]>>>>

JsonLine(doc) == Line("json", "", "", doc)

(***************************************************************************)
(* The presenter's operations on m = [displayed_packages, out, panicked]   *)
(***************************************************************************)
Emit(m, lines) == [m EXCEPT !.out = @ \o lines]

\* print_tree without the early return for a package already displayed.
PrintTreeNoDedup(m, cfg, color, package, t) ==
    LET dep == DependencyFrom(package)
        m1 == [m EXCEPT !.displayed_packages = @ \cup {dep}] IN
    IF ~UnwrapOr(cfg.show_tree, TRUE) THEN m1
    ELSE LET m2 == Emit(m1, <<PrintAttr(color, "Dependency tree:", "")>>) IN
         IF dep \notin TreeNodes(t) THEN [m2 EXCEPT !.panicked = TRUE]
         ELSE Emit(m2, Render(t, dep, 0))

\* print_tree that does not consult show_tree.
PrintTreeAlwaysShow(m, cfg, color, package, t) ==
    LET dep == DependencyFrom(package) IN
    IF dep \in m.displayed_packages THEN m
    ELSE LET m2 == Emit([m EXCEPT !.displayed_packages = @ \cup {dep}],
                        <<PrintAttr(color, "Dependency tree:", "")>>) IN
         IF dep \notin TreeNodes(t) THEN [m2 EXCEPT !.panicked = TRUE]
         ELSE Emit(m2, Render(t, dep, 0))

\* print_tree that consults show_tree first and records the package only
\* when it goes on to draw.
PrintTreeCheckFirst(m, cfg, color, package, t) ==
    LET dep == DependencyFrom(package) IN
    IF ~UnwrapOr(cfg.show_tree, TRUE) THEN m
    ELSE IF dep \in m.displayed_packages THEN m
    ELSE LET m2 == Emit([m EXCEPT !.displayed_packages = @ \cup {dep}],
                        <<PrintAttr(color, "Dependency tree:", "")>>) IN
         IF dep \notin TreeNodes(t) THEN [m2 EXCEPT !.panicked = TRUE]
         ELSE Emit(m2, Render(t, dep, 0))

\* print_tree with the header always in the critical color.
PrintTreeRed(m, cfg, color, package, t) ==
    LET dep == DependencyFrom(package) IN
    IF dep \in m.displayed_packages THEN m
    ELSE LET m1 == [m EXCEPT !.displayed_packages = @ \cup {dep}] IN
         IF ~UnwrapOr(cfg.show_tree, TRUE) THEN m1
         ELSE LET m2 == Emit(m1, <<PrintAttr("Red", "Dependency tree:", "")>>) IN
              IF dep \notin TreeNodes(t) THEN [m2 EXCEPT !.panicked = TRUE]
              ELSE Emit(m2, Render(t, dep, 0))

\* print_tree that looks the node up before it records the package and
\* writes the header.
PrintTreeLookupFirst(m, cfg, color, package, t) ==
    LET dep == DependencyFrom(package) IN
    IF dep \in m.displayed_packages THEN m
    ELSE IF ~UnwrapOr(cfg.show_tree, TRUE)
         THEN [m EXCEPT !.displayed_packages = @ \cup {dep}]
    ELSE IF dep \notin TreeNodes(t) THEN [m EXCEPT !.panicked = TRUE]
    ELSE Emit([m EXCEPT !.displayed_packages = @ \cup {dep}],
              <<PrintAttr(color, "Dependency tree:", "")>> \o Render(t, dep, 0))

\* Presenter::print_tree
PrintTree(m, cfg, color, package, t) ==
    LET dep == DependencyFrom(package) IN
    IF dep \in m.displayed_packages THEN m
    ELSE LET m1 == [m EXCEPT !.displayed_packages = @ \cup {dep}] IN
         IF ~UnwrapOr(cfg.show_tree, TRUE) THEN m1
         ELSE LET m2 == Emit(m1, <<PrintAttr(color, "Dependency tree:", "")>>) IN
              IF dep \notin TreeNodes(t) THEN [m2 EXCEPT !.panicked = TRUE]
              ELSE Emit(m2, Render(t, dep, 0))

\* A URL line that prefers the advisory's own url to the identifier's.
UrlAttrExplicitFirst(color, advisory) ==
    IF IsSome(advisory.url) THEN <<PrintAttr(color, "URL:     ", Unwrap(advisory.url))>>
    ELSE IF IsSome(IdUrl(advisory.id))
         THEN <<PrintAttr(color, "URL:     ", Unwrap(IdUrl(advisory.id)))>>
    ELSE <<>>

\* The URL line of a finding: the identifier's URL, else the advisory's own.
UrlAttr(color, advisory) ==
    IF IsSome(IdUrl(advisory.id)) THEN <<PrintAttr(color, "URL:     ", Unwrap(IdUrl(advisory.id)))>>
    ELSE IF IsSome(advisory.url) THEN <<PrintAttr(color, "URL:     ", Unwrap(advisory.url))>>
    ELSE <<>>

\* A Solution content whose requirements are each followed by the separator.
SolutionTrailing(v) ==
    Join([i \in 1..Len(v.versions.patched) |->
            ReqToString(v.versions.patched[i]) \o " OR "], "")

\* The content of the Solution line: the patched requirements, stringified
\* and joined.
Solution(v) ==
    Join([i \in 1..Len(v.versions.patched) |-> ReqToString(v.versions.patched[i])],
         " OR ")

\* Presenter::print_vulnerability, up to the call of print_tree
VulnerabilityAttrs(v) ==
    <<Blank,
      PrintAttr("Red", "ID:      ", v.advisory.id.str),
      PrintAttr("Red", "Crate:   ", v.package.name),
      PrintAttr("Red", "Version: ", VersionToString(v.package.version)),
      PrintAttr("Red", "Date:    ", v.advisory.date)>>
    \o UrlAttr("Red", v.advisory)
    \o <<PrintAttr("Red", "Title:   ", v.advisory.title),
         PrintAttr("Red", "Solution: upgrade to", Solution(v))>>

\* A warning block with the Date line before the Title line.
WarningAttrsDateFirst(w) ==
    <<Blank,
      PrintAttr("Yellow", "Crate:   ", w.package.name),
      PrintAttr("Red", "Date:    ", w.advisory.date),
      PrintAttr("Red", "Title: ", w.advisory.title)>>
    \o UrlAttr("Yellow", w.advisory)

\* Presenter::print_warning, up to the call of print_tree
WarningAttrs(w) ==
    <<Blank,
      PrintAttr("Yellow", "Crate:   ", w.package.name),
      PrintAttr("Red", "Title: ", w.advisory.title),
      PrintAttr("Red", "Date:    ", w.advisory.date)>>
    \o UrlAttr("Yellow", w.advisory)

PrintVulnerability(m, cfg, v, t) ==
    PrintTree(Emit(m, VulnerabilityAttrs(v)), cfg, "Red", v.package, t)

PrintWarning(m, cfg, w, t) ==
    PrintTree(Emit(m, WarningAttrs(w)), cfg, "Yellow", w.package, t)

\* The first status line of a human-mode report.
StatusLine(r) ==
    IF r.vulnerabilities.found THEN StatusErr("Vulnerable crates found!")
    ELSE StatusOk("Success", "No vulnerable packages found")

WarningHeader == <<Blank, StatusWarn("found informational advisories for dependencies")>>

\* A closing section written whether or not vulnerabilities were found.
CountSectionAlways(r) ==
    <<Blank,
      IF r.vulnerabilities.count = 1 THEN StatusErr("1 vulnerability found!")
      ELSE StatusErr(ToString(r.vulnerabilities.count) \o " vulnerabilities found!")>>

\* A closing section that counts the list instead of showing the count field.
CountSectionRecount(r) ==
    IF r.vulnerabilities.found
    THEN <<Blank,
           IF Len(r.vulnerabilities.list) = 1 THEN StatusErr("1 vulnerability found!")
           ELSE StatusErr(ToString(Len(r.vulnerabilities.list)) \o " vulnerabilities found!")>>
    ELSE <<>>

\* The closing section of a human-mode report.
CountSection(r) ==
    IF r.vulnerabilities.found
    THEN <<Blank,
           IF r.vulnerabilities.count = 1 THEN StatusErr("1 vulnerability found!")
           ELSE StatusErr(ToString(r.vulnerabilities.count) \o " vulnerabilities found!")>>
    ELSE <<>>

\* A loop over the vulnerabilities that runs from the last entry to the first.
VulnerabilityAtReversed(r, i) ==
    r.vulnerabilities.list[Len(r.vulnerabilities.list) + 1 - i]

\* The i-th item of `for vulnerability in &report.vulnerabilities.list`.
VulnerabilityAt(r, i) == r.vulnerabilities.list[i]

\* The i-th item of `for warning in &report.warnings`.
WarningAt(r, i) == r.warnings[i]

\* The two `for` loops of print_report; a panic ends the run.
RECURSIVE PrintVulnerabilities(_, _, _, _, _)
PrintVulnerabilities(m, cfg, r, i, t) ==
    IF i > Len(r.vulnerabilities.list) \/ m.panicked THEN m
    ELSE PrintVulnerabilities(PrintVulnerability(m, cfg, VulnerabilityAt(r, i), t),
                              cfg, r, i + 1, t)

RECURSIVE PrintWarnings(_, _, _, _, _)
PrintWarnings(m, cfg, r, i, t) ==
    IF i > Len(r.warnings) \/ m.panicked THEN m
    ELSE PrintWarnings(PrintWarning(m, cfg, WarningAt(r, i), t), cfg, r, i + 1, t)

\* Presenter::print_report as one function of the presenter and its arguments.
PrintReport(displayed, cfg, r, l) ==
    LET m0 == [displayed_packages |-> displayed, out |-> <<>>, panicked |-> FALSE] IN
    IF cfg.format = "Json" THEN Emit(m0, <<JsonLine(ToJson(r))>>)
    ELSE LET m1 == Emit(m0, <<StatusLine(r)>>) IN
         IF ~TreeOk(l) THEN [m1 EXCEPT !.panicked = TRUE]
         ELSE LET t  == DependencyTree(l)
                  m2 == PrintVulnerabilities(m1, cfg, r, 1, t)
                  m3 == IF m2.panicked \/ r.warnings = <<>> THEN m2
                        ELSE PrintWarnings(Emit(m2, WarningHeader), cfg, r, 1, t)
              IN IF m3.panicked THEN m3 ELSE Emit(m3, CountSection(r))

(***************************************************************************)
(* The state machine                                                       *)
(***************************************************************************)
Cur == [displayed_packages |-> displayed_packages, out |-> out, panicked |-> FALSE]

\* Presenter::new
Init ==
    /\ config \in Configs
    /\ displayed_packages = {}
    /\ out = <<>>
    /\ pc = "returned"
    /\ op = "new"
    /\ report = NoReport
    /\ lockfile = NoLockfile
    /\ tree = NoTree
    /\ idx = 0
    /\ pre = {}

\* The caller goes on after an operation returned: it has taken the output,
\* and its borrows of the report and the lockfile have ended.
Continue ==
    /\ pc = "returned"
    /\ pc' = "ready"
    /\ op' = "none"
    /\ out' = <<>>
    /\ report' = NoReport
    /\ lockfile' = NoLockfile
    /\ pre' = {}
    /\ UNCHANGED <<displayed_packages, config, tree, idx>>

ScanningLine(path, l) ==
    StatusOk("Scanning", path \o " for vulnerabilities (" \o ToString(Len(l.packages))
                         \o " crate dependencies)")

\* A before_report that starts each scan with an empty displayed_packages.
BeforeReportReset ==
    /\ pc = "ready"
    /\ \E path \in LockfilePaths, l \in Lockfiles :
          /\ out' = IF ~config.quiet THEN <<ScanningLine(path, l)>> ELSE <<>>
          /\ lockfile' = l
    /\ displayed_packages' = {}
    /\ op' = "before_report"
    /\ pc' = "returned"
    /\ UNCHANGED <<config, report, tree, idx, pre>>

\* A before_report that does not consult quiet.
BeforeReportLoud ==
    /\ pc = "ready"
    /\ \E path \in LockfilePaths, l \in Lockfiles :
          /\ out' = <<ScanningLine(path, l)>>
          /\ lockfile' = l
    /\ op' = "before_report"
    /\ pc' = "returned"
    /\ UNCHANGED <<displayed_packages, config, report, tree, idx, pre>>

\* Presenter::before_report
BeforeReport ==
    /\ pc = "ready"
    /\ \E path \in LockfilePaths, l \in Lockfiles :
          /\ out' = IF ~config.quiet THEN <<ScanningLine(path, l)>> ELSE <<>>
          /\ lockfile' = l
    /\ op' = "before_report"
    /\ pc' = "returned"
    /\ UNCHANGED <<displayed_packages, config, report, tree, idx, pre>>

\* A Json branch without its `return`: the run goes on into the human report.
PrintReportJsonNoReturn ==
    /\ pc = "ready"
    /\ config.format = "Json"
    /\ \E r \in BoundedReports, l \in Lockfiles :
          /\ report' = r
          /\ lockfile' = l
          /\ out' = <<JsonLine(ToJson(r)), StatusLine(r)>>
    /\ op' = "print_report"
    /\ pre' = displayed_packages
    /\ pc' = "build"
    /\ UNCHANGED <<displayed_packages, config, tree, idx>>

\* Presenter::print_report, Json format: serialize and return
PrintReportJsonOn(R) ==
    /\ pc = "ready"
    /\ config.format = "Json"
    /\ \E r \in R, l \in Lockfiles :
          /\ report' = r
          /\ lockfile' = l
          /\ out' = <<JsonLine(ToJson(r))>>
    /\ op' = "print_report"
    /\ pre' = displayed_packages
    /\ pc' = "returned"
    /\ UNCHANGED <<displayed_packages, config, tree, idx>>

\* Presenter::print_report, other formats: the first status line
PrintReportHumanOn(R) ==
    /\ pc = "ready"
    /\ config.format # "Json"
    /\ \E r \in R, l \in Lockfiles :
          /\ report' = r
          /\ lockfile' = l
          /\ out' = <<StatusLine(r)>>
    /\ op' = "print_report"
    /\ pre' = displayed_packages
    /\ pc' = "build"
    /\ UNCHANGED <<displayed_packages, config, tree, idx>>

\* A human-mode print_report that empties displayed_packages on entry.
PrintReportHumanReset ==
    /\ pc = "ready"
    /\ config.format # "Json"
    /\ \E r \in BoundedReports, l \in Lockfiles :
          /\ report' = r
          /\ lockfile' = l
          /\ out' = <<StatusLine(r)>>
    /\ op' = "print_report"
    /\ pre' = displayed_packages
    /\ displayed_packages' = {}
    /\ pc' = "build"
    /\ UNCHANGED <<config, tree, idx>>

PrintReportJson == PrintReportJsonOn(BoundedReports)
PrintReportHuman == PrintReportHumanOn(BoundedReports)

\* print_report on the reports of AttrReports
PrintReportJsonAttr == PrintReportJsonOn(AttrReports)
PrintReportHumanAttr == PrintReportHumanOn(AttrReports)

\* A tree build whose error is ignored: the run goes on with what was built.
BuildTreeUnchecked ==
    /\ pc = "build"
    /\ tree' = DependencyTree(lockfile)
    /\ idx' = 1
    /\ pc' = "vulnerabilities"
    /\ UNCHANGED <<displayed_packages, config, out, op, report, lockfile, pre>>

\* lockfile.dependency_tree().expect(..)
BuildTree ==
    /\ pc = "build"
    /\ IF TreeOk(lockfile)
       THEN /\ tree' = DependencyTree(lockfile)
            /\ idx' = 1
            /\ pc' = "vulnerabilities"
       ELSE /\ pc' = "panicked"
            /\ UNCHANGED <<tree, idx>>
    /\ UNCHANGED <<displayed_packages, config, out, op, report, lockfile, pre>>

\* print_vulnerability of the next list entry, up to its print_tree
VulnerabilityLines ==
    /\ pc = "vulnerabilities"
    /\ idx <= Len(report.vulnerabilities.list)
    /\ out' = out \o VulnerabilityAttrs(VulnerabilityAt(report, idx))
    /\ pc' = "vulnerability_tree"
    /\ UNCHANGED <<displayed_packages, config, op, report, lockfile, tree, idx, pre>>

\* the print_tree call that ends print_vulnerability
VulnerabilityTree ==
    /\ pc = "vulnerability_tree"
    /\ LET m == PrintTree(Cur, config, "Red", VulnerabilityAt(report, idx).package, tree)
       IN /\ displayed_packages' = m.displayed_packages
          /\ out' = m.out
          /\ pc' = IF m.panicked THEN "panicked" ELSE "vulnerabilities"
          /\ idx' = IF m.panicked THEN idx ELSE idx + 1
    /\ UNCHANGED <<config, op, report, lockfile, tree, pre>>

\* A warning section that is written only when vulnerabilities were found.
WarningSectionIfFound ==
    /\ pc = "vulnerabilities"
    /\ idx > Len(report.vulnerabilities.list)
    /\ IF report.warnings # <<>> /\ report.vulnerabilities.found
       THEN /\ out' = out \o WarningHeader
            /\ pc' = "warnings"
            /\ idx' = 1
       ELSE /\ pc' = "count"
            /\ idx' = 0
            /\ UNCHANGED out
    /\ UNCHANGED <<displayed_packages, config, op, report, lockfile, tree, pre>>

\* after the vulnerability loop: the warning header, if there are warnings
WarningSection ==
    /\ pc = "vulnerabilities"
    /\ idx > Len(report.vulnerabilities.list)
    /\ IF report.warnings # <<>>
       THEN /\ out' = out \o WarningHeader
            /\ pc' = "warnings"
            /\ idx' = 1
       ELSE /\ pc' = "count"
            /\ idx' = 0
            /\ UNCHANGED out
    /\ UNCHANGED <<displayed_packages, config, op, report, lockfile, tree, pre>>

\* print_warning of the next warning, up to its print_tree
WarningLines ==
    /\ pc = "warnings"
    /\ idx <= Len(report.warnings)
    /\ out' = out \o WarningAttrs(WarningAt(report, idx))
    /\ pc' = "warning_tree"
    /\ UNCHANGED <<displayed_packages, config, op, report, lockfile, tree, idx, pre>>

\* the print_tree call that ends print_warning
WarningTree ==
    /\ pc = "warning_tree"
    /\ LET m == PrintTree(Cur, config, "Yellow", WarningAt(report, idx).package, tree)
       IN /\ displayed_packages' = m.displayed_packages
          /\ out' = m.out
          /\ pc' = IF m.panicked THEN "panicked" ELSE "warnings"
          /\ idx' = IF m.panicked THEN idx ELSE idx + 1
    /\ UNCHANGED <<config, op, report, lockfile, tree, pre>>

\* the count section, and the return of print_report
Finish ==
    /\ \/ pc = "count"
       \/ pc = "warnings" /\ idx > Len(report.warnings)
    /\ out' = out \o CountSection(report)
    /\ pc' = "returned"
    /\ tree' = NoTree
    /\ idx' = 0
    /\ UNCHANGED <<displayed_packages, config, op, report, lockfile, pre>>

Next ==
    \/ Continue
    \/ BeforeReport
    \/ PrintReportJson
    \/ PrintReportHuman
    \/ BuildTree
    \/ VulnerabilityLines
    \/ VulnerabilityTree
    \/ WarningSection
    \/ WarningLines
    \/ WarningTree
    \/ Finish

Spec == Init /\ [][Next]_vars

\* The presenter on reports with one finding and every shape of advisory.
NextAttr ==
    \/ Continue
    \/ BeforeReport
    \/ PrintReportJsonAttr
    \/ PrintReportHumanAttr
    \/ BuildTree
    \/ VulnerabilityLines
    \/ VulnerabilityTree
    \/ WarningSection
    \/ WarningLines
    \/ WarningTree
    \/ Finish

SpecAttr == Init /\ [][NextAttr]_vars

TypeOK ==
    /\ config \in Configs
    /\ displayed_packages \subseteq {DepFoo, DepBar}
    /\ pc \in {"ready", "returned", "build", "vulnerabilities", "vulnerability_tree",
               "warnings", "warning_tree", "count", "panicked"}
    /\ op \in {"new", "none", "before_report", "print_report"}
    /\ report \in BoundedReports
    /\ lockfile \in Lockfiles \cup {NoLockfile}
    /\ idx \in 0..(MaxFindings + 1)
    /\ pre \subseteq displayed_packages

(***************************************************************************)
(* Vocabulary of the properties                                            *)
(***************************************************************************)
Human == config.format # "Json"
InReport == op = "print_report"
HumanReturned == InReport /\ Human /\ pc = "returned"
ShowTree == config.show_tree # Some(FALSE)

IsTreeHeader(e) == e.kind = "attr" /\ e.label = "Dependency tree:"
IsTreeLine(e) == e.kind = "tree"
IsTreePart(e) == IsTreeHeader(e) \/ IsTreeLine(e)

VulnerabilityPackages(r) ==
    {DependencyFrom(r.vulnerabilities.list[i].package) : i \in 1..Len(r.vulnerabilities.list)}
WarningPackages(r) ==
    {DependencyFrom(r.warnings[i].package) : i \in 1..Len(r.warnings)}
FindingPackages(r) == VulnerabilityPackages(r) \cup WarningPackages(r)

\* The number of findings of r that are about identity d.
FindingsAbout(r, d) ==
    Cardinality({i \in 1..Len(r.vulnerabilities.list) :
                    DependencyFrom(r.vulnerabilities.list[i].package) = d})
    + Cardinality({i \in 1..Len(r.warnings) : DependencyFrom(r.warnings[i].package) = d})

\* o holds, from position i on, a tree header followed by the drawing of the
\* incoming subgraph of d in tree t.
DrawnAt(o, t, i, d) ==
    LET drawing == Render(t, d, 0) IN
    /\ IsTreeHeader(o[i])
    /\ i + Len(drawing) <= Len(o)
    /\ SubSeq(o, i + 1, i + Len(drawing)) = drawing

TreesDrawn(o, t, d) == Cardinality({i \in 1..Len(o) : DrawnAt(o, t, i, d)})

TheTree == DependencyTree(lockfile)

(***************************************************************************)
(* C1                                                                      *)
(***************************************************************************)
\* C1 as stated: when a human-mode run has returned, the tree of every
\* identity of the report's findings has been drawn exactly once.
C1_TreeExactlyOnce ==
    HumanReturned =>
        \A d \in FindingPackages(report) : TreesDrawn(out, TheTree, d) = 1

\* C1 amended: at every point of a human-mode run the tree of an identity has
\* been drawn at most once; when the run has returned it has been drawn
\* exactly once if showTree resolves to true and the identity was not in
\* displayed_packages when the run began, and not at all otherwise.
C1_TreeOncePerIdentity ==
    (InReport /\ Human /\ TreeOk(lockfile)) =>
        \A d \in FindingPackages(report) :
            /\ TreesDrawn(out, TheTree, d) <= 1
            /\ (pc = "returned" /\ ShowTree /\ d \notin pre)
                  => TreesDrawn(out, TheTree, d) = 1
            /\ (~ShowTree \/ d \in pre) => TreesDrawn(out, TheTree, d) = 0

C1_Witness ==
    /\ HumanReturned /\ ShowTree
    /\ \E d \in FindingPackages(report) :
          /\ FindingsAbout(report, d) >= 2
          /\ d \notin pre
          /\ TreesDrawn(out, TheTree, d) = 1

(***************************************************************************)
(* C2                                                                      *)
(***************************************************************************)
\* C2: a Json-format print_report returns at once; it leaves
\* displayed_packages as it was, builds no tree and writes no tree header
\* and no tree line, whatever the report, the lockfile and show_tree.
C2_JsonNoTreeNoDedup ==
    (InReport /\ ~Human) =>
        /\ pc = "returned"
        /\ displayed_packages = pre
        /\ tree = NoTree
        /\ \A i \in 1..Len(out) : ~IsTreePart(out[i])

C2_Witness ==
    /\ InReport /\ ~Human /\ pc = "returned"
    /\ ~TreeOk(lockfile)
    /\ config.show_tree = Some(TRUE)
    /\ FindingPackages(report) # {}
    /\ displayed_packages = {}

(***************************************************************************)
(* C3                                                                      *)
(***************************************************************************)
\* Reading a JSON document back: the value of member `key` of object `obj`.
Member(obj, key) == obj[CHOOSE i \in 1..Len(obj) : obj[i][1] = key][2]
Keys(obj) == [i \in 1..Len(obj) |-> obj[i][1]]
VulnerabilityFromJson(j) ==
    [advisory |-> Member(j, "advisory"), package |-> Member(j, "package"),
     versions |-> Member(j, "versions")]
WarningFromJson(j) ==
    [advisory |-> Member(j, "advisory"), package |-> Member(j, "package")]
FromJson(doc) ==
    LET v == Member(doc, "vulnerabilities")
        l == Member(v, "list")
        w == Member(doc, "warnings")
    IN [vulnerabilities |->
           [found |-> Member(v, "found"),
            count |-> Member(v, "count"),
            list |-> [i \in 1..Len(l) |-> VulnerabilityFromJson(l[i])]],
        warnings |-> [i \in 1..Len(w) |-> WarningFromJson(w[i])]]

\* C3: the output of a Json-format print_report is one JSON document and
\* nothing else, and the document read back is the report as received: the
\* same found, count, list (in order) and warnings (in order).
C3_JsonIsTheReport ==
    (InReport /\ ~Human) =>
        /\ Len(out) = 1
        /\ out[1].kind = "json"
        /\ Keys(out[1].content) = <<"vulnerabilities", "warnings">>
        /\ FromJson(out[1].content) = report

C3_Witness ==
    /\ InReport /\ ~Human
    /\ Len(out) = 1 /\ out[1].kind = "json"
    /\ report.vulnerabilities.found = FALSE
    /\ report.vulnerabilities.count = 2
    /\ Len(report.vulnerabilities.list) = 1
    /\ Len(report.warnings) = 2
    /\ report.warnings[1] # report.warnings[2]

(***************************************************************************)
(* C4                                                                      *)
(***************************************************************************)
SuccessLine == [kind |-> "status", color |-> "Green", label |-> "Success",
                content |-> "No vulnerable packages found"]

\* C4 as stated: in human mode, with found = false and no warnings, the
\* output of the run is the success line and nothing else.
C4_OnlySuccessLine ==
    (HumanReturned /\ ~report.vulnerabilities.found /\ report.warnings = <<>>)
    => out = <<SuccessLine>>

\* C4 amended: in human mode, with found = false, an empty
\* vulnerabilities.list and no warnings, the output is the success line and
\* nothing else, at every point of the run.
C4_OnlySuccessLineEmptyList ==
    (InReport /\ Human
       /\ ~report.vulnerabilities.found
       /\ report.vulnerabilities.list = <<>>
       /\ report.warnings = <<>>)
    => out = <<SuccessLine>>

C4_Witness ==
    /\ HumanReturned
    /\ ~report.vulnerabilities.found
    /\ report.vulnerabilities.count = 1
    /\ report.vulnerabilities.list = <<>>
    /\ report.warnings = <<>>
    /\ out = <<SuccessLine>>

(***************************************************************************)
(* C5                                                                      *)
(***************************************************************************)
\* o without its tree headers and tree lines.
StripTrees(o) == SelectSeq(o, LAMBDA e : ~IsTreePart(e))
IsPrefix(a, b) == Len(a) <= Len(b) /\ SubSeq(b, 1, Len(a)) = a

\* The run of print_report that the current run would have been with
\* show_tree set to st.
RunWith(st) == PrintReport(pre, [config EXCEPT !.show_tree = st], report, lockfile)

HumanEnded == InReport /\ Human /\ pc \in {"returned", "panicked"}

\* Consistency of the model: a run taken step by step ends as PrintReport
\* says.
RunIsPrintReport ==
    (InReport /\ pc \in {"returned", "panicked"}) =>
        PrintReport(pre, config, report, lockfile)
            = [displayed_packages |-> displayed_packages, out |-> out,
               panicked |-> (pc = "panicked")]

\* C5 as stated: a human-mode run with show_tree = false writes no tree
\* header and no tree line, and its output is the output of the run with
\* show_tree = true (or absent) on the same report and lockfile, with the
\* tree headers and tree lines taken out.
C5_SameLinesWithoutTrees ==
    (HumanEnded /\ config.show_tree = Some(FALSE)) =>
        /\ \A i \in 1..Len(out) : ~IsTreePart(out[i])
        /\ \A st \in {None, Some(TRUE)} : StripTrees(RunWith(st).out) = out

\* C5 amended: a human-mode run with show_tree = false writes no tree header
\* and no tree line; the output of the run with show_tree = true (or absent),
\* with its tree headers and tree lines taken out, is a prefix of its output,
\* and is the same output when that run returns or fails to build the tree,
\* that is, unless it aborts at a finding whose package is no node of the tree.
C5_PrefixWithoutTrees ==
    (HumanEnded /\ config.show_tree = Some(FALSE)) =>
        /\ \A i \in 1..Len(out) : ~IsTreePart(out[i])
        /\ \A st \in {None, Some(TRUE)} :
              /\ IsPrefix(StripTrees(RunWith(st).out), out)
              /\ (~RunWith(st).panicked \/ ~TreeOk(lockfile))
                    => StripTrees(RunWith(st).out) = out

C5_Witness ==
    /\ HumanReturned /\ config.show_tree = Some(FALSE)
    /\ pre = {}
    /\ Len(report.vulnerabilities.list) >= 1 /\ Len(report.warnings) >= 1
    /\ ~RunWith(Some(TRUE)).panicked
    /\ Len(RunWith(Some(TRUE)).out) > Len(out)
    /\ StripTrees(RunWith(None).out) = out

(***************************************************************************)
(* C6                                                                      *)
(***************************************************************************)
CountLine(c) ==
    [kind |-> "status", color |-> "Red", label |-> "error:",
     content |-> CASE c = 0 -> "0 vulnerabilities found!"
                   [] c = 1 -> "1 vulnerability found!"
                   [] c = 2 -> "2 vulnerabilities found!"]
IsCountLine(e) == e.kind = "status" /\ \E c \in Counts : e = CountLine(c)
BlankLine == [kind |-> "blank", color |-> "", label |-> "", content |-> ""]

\* C6: a human-mode run writes no count line before its end; when it returns
\* with found = true its last two lines are a blank line and the count line
\* of the report's count field ("1 vulnerability found!" for 1, "<count>
\* vulnerabilities found!" otherwise, 0 included), and that is its only count
\* line; when it returns with found = false it has written no count line.
C6_CountLine ==
    (InReport /\ Human) =>
        /\ pc # "returned" => \A i \in 1..Len(out) : ~IsCountLine(out[i])
        /\ (pc = "returned" /\ report.vulnerabilities.found) =>
              /\ Len(out) >= 3
              /\ out[Len(out)] = CountLine(report.vulnerabilities.count)
              /\ out[Len(out) - 1] = BlankLine
              /\ \A i \in 1..(Len(out) - 1) : ~IsCountLine(out[i])
        /\ (pc = "returned" /\ ~report.vulnerabilities.found) =>
              \A i \in 1..Len(out) : ~IsCountLine(out[i])

C6_Witness ==
    /\ HumanReturned
    /\ report.vulnerabilities.found
    /\ report.vulnerabilities.count = 0
    /\ Len(report.vulnerabilities.list) = 2
    /\ out[Len(out)] = CountLine(0)

(***************************************************************************)
(* C7                                                                      *)
(***************************************************************************)
\* The identities of the findings whose print_tree call has been made.
Attempted ==
    CASE pc \in {"vulnerabilities", "vulnerability_tree"} ->
            {DependencyFrom(report.vulnerabilities.list[i].package) : i \in 1..(idx - 1)}
      [] pc \in {"warnings", "warning_tree"} ->
            VulnerabilityPackages(report)
            \cup {DependencyFrom(report.warnings[i].package) : i \in 1..(idx - 1)}
      [] pc \in {"count", "returned"} -> FindingPackages(report)
      [] OTHER -> {}

\* The identity that the print_tree call about to be made is for.
TreeCallFor ==
    IF pc = "vulnerability_tree"
    THEN DependencyFrom(report.vulnerabilities.list[idx].package)
    ELSE DependencyFrom(report.warnings[idx].package)

\* C7 (state part): in a human-mode run, whatever show_tree is,
\* displayed_packages is its value at the start of the run together with the
\* identities of the findings whose print_tree call has been made; when the
\* run has returned these are the identities of all findings.
C7_InsertedAtFirstAttempt ==
    (InReport /\ Human /\ pc \notin {"build", "panicked"}) =>
        displayed_packages = pre \cup Attempted

\* C7 (step part): a print_tree call for an identity already in
\* displayed_packages writes nothing and leaves the set as it is.
C7_SeenIsSilent ==
    (pc \in {"vulnerability_tree", "warning_tree"} /\ TreeCallFor \in displayed_packages)
    => (out' = out /\ displayed_packages' = displayed_packages /\ pc' # "panicked")

\* C7: both parts.
C7_InsertBeforeShowCheck ==
    [](C7_InsertedAtFirstAttempt) /\ [][C7_SeenIsSilent]_vars

C7_Witness ==
    /\ HumanReturned /\ config.show_tree = Some(FALSE)
    /\ pre = {DepFoo}
    /\ displayed_packages = {DepFoo, DepBar}
    /\ FindingsAbout(report, DepBar) >= 2

(***************************************************************************)
(* C8                                                                      *)
(***************************************************************************)
FailureLine == [kind |-> "status", color |-> "Red", label |-> "error:",
                content |-> "Vulnerable crates found!"]
WarningHeaderLine ==
    [kind |-> "status", color |-> "Yellow", label |-> "warning:",
     content |-> "found informational advisories for dependencies"]

\* The positions of the blank lines of o, in order.
Blanks(o) == SelectSeq([i \in 1..Len(o) |-> i], LAMBDA i : o[i].kind = "blank")

\* The k-th section of o: the lines after the k-th blank line, up to the next
\* blank line or the end.
Section(o, k) ==
    LET b == Blanks(o) IN
    SubSeq(o, b[k] + 1, IF k < Len(b) THEN b[k + 1] - 1 ELSE Len(o))

\* In section s every tree header and tree line comes after every other line.
TreeLast(s) ==
    \A i, j \in 1..Len(s) : (i < j /\ IsTreePart(s[i])) => IsTreePart(s[j])

\* The tree part of section s is empty or is a header followed by a drawing
\* that starts at package p.
TreeIsOf(s, p) ==
    LET t == SelectSeq(s, IsTreePart) IN
    t # <<>> =>
        /\ IsTreeHeader(t[1])
        /\ \A i \in 2..Len(t) : IsTreeLine(t[i])
        /\ Len(t) >= 2 => t[2].content = p.name \o " " \o VersionToString(p.version)

Labels(s) == [i \in 1..Len(s) |-> s[i].label]

IsVulnerabilityBlock(s, v) ==
    LET a == StripTrees(s) IN
    /\ TreeLast(s) /\ TreeIsOf(s, v.package)
    /\ Labels(a) \in {<<"ID:      ", "Crate:   ", "Version: ", "Date:    ", "URL:     ",
                        "Title:   ", "Solution: upgrade to">>,
                      <<"ID:      ", "Crate:   ", "Version: ", "Date:    ",
                        "Title:   ", "Solution: upgrade to">>}
    /\ a[1].content = v.advisory.id.str
    /\ a[2].content = v.package.name
    /\ a[Len(a) - 1].content = v.advisory.title

IsWarningBlock(s, w) ==
    LET a == StripTrees(s) IN
    /\ TreeLast(s) /\ TreeIsOf(s, w.package)
    /\ Labels(a) \in {<<"Crate:   ", "Title: ", "Date:    ", "URL:     ">>,
                      <<"Crate:   ", "Title: ", "Date:    ">>}
    /\ a[1].content = w.package.name
    /\ a[2].content = w.advisory.title

\* C8: the output of a human-mode run that has returned is: one status line
\* (failure if found, else success); one section per entry of
\* vulnerabilities.list, in list order, each the entry's attribute lines
\* followed by its tree if any; then, iff warnings is not empty, a section
\* holding the warning header and one section per warning in list order;
\* then, iff found, the section of the count line.  Sections are separated
\* by blank lines and nothing else is written.
C8_OutputOrder ==
    HumanReturned =>
        LET nv == Len(report.vulnerabilities.list)
            nw == Len(report.warnings)
            hw == IF nw > 0 THEN 1 ELSE 0
            hc == IF report.vulnerabilities.found THEN 1 ELSE 0
        IN /\ out[1] = (IF report.vulnerabilities.found THEN FailureLine ELSE SuccessLine)
           /\ Len(Blanks(out)) = nv + hw + nw + hc
           /\ Len(out) > 1 => out[2].kind = "blank"
           /\ \A k \in 1..nv :
                 IsVulnerabilityBlock(Section(out, k), report.vulnerabilities.list[k])
           /\ nw > 0 => Section(out, nv + 1) = <<WarningHeaderLine>>
           /\ \A k \in 1..nw :
                 IsWarningBlock(Section(out, nv + hw + k), report.warnings[k])
           /\ hc = 1 =>
                 /\ Len(Section(out, nv + hw + nw + 1)) = 1
                 /\ IsCountLine(Section(out, nv + hw + nw + 1)[1])

C8_Witness ==
    /\ HumanReturned /\ ShowTree
    /\ ~report.vulnerabilities.found
    /\ Len(report.vulnerabilities.list) = 2
    /\ report.vulnerabilities.list[1] # report.vulnerabilities.list[2]
    /\ Len(report.warnings) = 1
    /\ Len(SelectSeq(out, IsTreeHeader)) = 2

(***************************************************************************)
(* C9                                                                      *)
(***************************************************************************)
\* C9: a human-mode run on a lockfile whose dependency tree cannot be built
\* panics at the tree build, once, before any finding is processed: its
\* whole output is the first status line, and displayed_packages is as it
\* was when the run began.
C9_BrokenLockfileAborts ==
    (InReport /\ Human /\ ~TreeOk(lockfile)) =>
        /\ pc \in {"build", "panicked"}
        /\ out = <<IF report.vulnerabilities.found THEN FailureLine ELSE SuccessLine>>
        /\ displayed_packages = pre
        /\ idx = 0

C9_Witness ==
    /\ InReport /\ Human /\ ~TreeOk(lockfile)
    /\ pc = "panicked"
    /\ Len(report.vulnerabilities.list) >= 1 /\ Len(report.warnings) >= 1
    /\ report.vulnerabilities.found
    /\ FindingPackages(report) \ displayed_packages # {}

(***************************************************************************)
(* C10                                                                     *)
(***************************************************************************)
\* C10 (step part): no step removes an identity from displayed_packages, and
\* only the print_tree calls change it.
C10_GrowsInPrintTree ==
    /\ displayed_packages \subseteq displayed_packages'
    /\ displayed_packages' # displayed_packages
          => pc \in {"vulnerability_tree", "warning_tree"}

\* C10: displayed_packages is empty right after new, only grows, and is
\* changed by no step other than a print_tree call.
C10_DisplayedOnlyGrows ==
    [](op = "new" => displayed_packages = {}) /\ [][C10_GrowsInPrintTree]_vars

C10_Witness ==
    /\ op = "before_report" /\ pc = "returned"
    /\ displayed_packages = {DepFoo, DepBar}

(***************************************************************************)
(* C11                                                                     *)
(***************************************************************************)
\* The status line of before_report for a lockfile at `path` with n packages.
ScanningLineOf(path, n) ==
    [kind |-> "status", color |-> "Green", label |-> "Scanning",
     content |-> path \o " for vulnerabilities ("
                 \o (CASE n = 2 -> "2" [] n = 3 -> "3")
                 \o " crate dependencies)"]

\* C11 (step part): a call of before_report writes nothing when quiet is
\* true and, when quiet is false, exactly one status line naming the path and
\* the number of packages of the lockfile; it leaves displayed_packages and
\* config as they were.
C11_BeforeReportStep ==
    (pc = "ready" /\ op' = "before_report") =>
        /\ displayed_packages' = displayed_packages
        /\ config' = config
        /\ pc' = "returned"
        /\ IF config.quiet THEN out' = <<>>
           ELSE \E path \in LockfilePaths :
                   out' = <<ScanningLineOf(path, Len(lockfile'.packages))>>

C11_WitnessLoud ==
    /\ op = "before_report" /\ pc = "returned"
    /\ ~config.quiet /\ config.format = "Json"
    /\ out = <<ScanningLineOf("fuzz/Cargo.lock", 3)>>

(***************************************************************************)
(* C12                                                                     *)
(***************************************************************************)
IsUrlLine(e) == e.kind = "attr" /\ e.label = "URL:     "
UrlLines(s) == SelectSeq(s, IsUrlLine)
NotUrlLines(s) == SelectSeq(s, LAMBDA e : ~IsUrlLine(e))
Contents(s) == [i \in 1..Len(s) |-> s[i].content]

\* The URL lines of section s are those of a finding with this advisory: the
\* identifier's canonical URL if it has one, else the advisory's own url if
\* present, else none.
UrlLineIsOf(s, advisory) ==
    LET u == UrlLines(s) IN
    /\ Len(u) <= 1
    /\ IsSome(IdUrl(advisory.id)) =>
          Len(u) = 1 /\ u[1].content = Unwrap(IdUrl(advisory.id))
    /\ (~IsSome(IdUrl(advisory.id)) /\ IsSome(advisory.url)) =>
          Len(u) = 1 /\ u[1].content = Unwrap(advisory.url)
    /\ (~IsSome(IdUrl(advisory.id)) /\ ~IsSome(advisory.url)) => u = <<>>

\* C12: in the output of a human-mode run that has returned, the block of
\* every vulnerability and of every warning has at most one URL line, with
\* the canonical URL of the identifier if there is one (also when the
\* advisory has its own url), else the advisory's own url, else no URL line;
\* the other attribute lines of the block are the same in all three cases.
C12_UrlPrecedence ==
    HumanReturned =>
        LET nv == Len(report.vulnerabilities.list)
            hw == IF report.warnings # <<>> THEN 1 ELSE 0
        IN /\ \A k \in 1..nv :
                 LET v == report.vulnerabilities.list[k]
                     a == StripTrees(Section(out, k))
                 IN /\ UrlLineIsOf(a, v.advisory)
                    /\ Labels(NotUrlLines(a)) =
                          <<"ID:      ", "Crate:   ", "Version: ", "Date:    ",
                            "Title:   ", "Solution: upgrade to">>
                    /\ SubSeq(Contents(NotUrlLines(a)), 1, 5) =
                          <<v.advisory.id.str, v.package.name,
                            VersionToString(v.package.version), v.advisory.date,
                            v.advisory.title>>
           /\ \A k \in 1..Len(report.warnings) :
                 LET w == report.warnings[k]
                     a == StripTrees(Section(out, nv + hw + k))
                 IN /\ UrlLineIsOf(a, w.advisory)
                    /\ Labels(NotUrlLines(a)) = <<"Crate:   ", "Title: ", "Date:    ">>
                    /\ Contents(NotUrlLines(a)) =
                          <<w.package.name, w.advisory.title, w.advisory.date>>

\* A finding with a canonical URL and an explicit url shows the canonical one.
C12_Witness ==
    /\ HumanReturned
    /\ Len(report.warnings) = 1
    /\ report.warnings[1].advisory.id.kind = "CVE"
    /\ IsSome(report.warnings[1].advisory.url)
    /\ Contents(UrlLines(out)) =
          <<"https://cve.mitre.org/cgi-bin/cvename.cgi?name=CVE-2020-0003">>

(***************************************************************************)
(* C13                                                                     *)
(***************************************************************************)
\* The strings strs[1..n] with " OR " between each two neighbours.
RECURSIVE OrJoined(_, _)
OrJoined(strs, n) ==
    IF n = 0 THEN ""
    ELSE IF n = 1 THEN strs[1]
    ELSE OrJoined(strs, n - 1) \o " OR " \o strs[n]

SolutionLines(s) == SelectSeq(s, LAMBDA e : e.kind = "attr" /\ e.label = "Solution: upgrade to")

\* C13: in the output of a human-mode run that has returned, the block of
\* every vulnerability has exactly one Solution line, whose content is the
\* patched requirements, stringified, in their order, with " OR " between
\* neighbours and nowhere else; with no patched requirement the line is
\* there and its content is the empty string.
C13_SolutionLine ==
    HumanReturned =>
        \A k \in 1..Len(report.vulnerabilities.list) :
            LET p == report.vulnerabilities.list[k].versions.patched
                l == SolutionLines(Section(out, k))
            IN /\ Len(l) = 1
               /\ l[1].content = OrJoined([i \in 1..Len(p) |-> ReqToString(p[i])], Len(p))
               /\ p = <<>> => l[1].content = ""

C13_Witness ==
    /\ HumanReturned
    /\ Len(report.vulnerabilities.list) = 1
    /\ report.vulnerabilities.list[1].versions.patched
          = <<Req(">=", <<1, 2, 3>>), Req("^", <<2, 0, 0>>)>>
    /\ Contents(SolutionLines(out)) = <<">=1.2.3 OR ^2.0.0">>

C13_WitnessEmpty ==
    /\ HumanReturned
    /\ Len(report.vulnerabilities.list) = 1
    /\ report.vulnerabilities.list[1].versions.patched = <<>>
    /\ Contents(SolutionLines(out)) = <<"">>

(***************************************************************************)
(* C14                                                                     *)
(***************************************************************************)
\* The run of print_report on the same report and lockfile by a Presenter
\* just made by new with the same configuration.
FreshRun == PrintReport({}, config, report, lockfile)

\* The identities of this report whose print_tree call was made by an
\* earlier print_report on this Presenter.
AttemptedBefore == pre \cap FindingPackages(report)

\* C14 as stated: in a human-mode run that has returned, an identity whose
\* tree display was attempted by an earlier run on the same Presenter has no
\* tree, while the run of a fresh Presenter on the same report draws it.
C14_SecondRunLosesTree ==
    HumanReturned =>
        \A d \in AttemptedBefore :
            /\ TreesDrawn(out, TheTree, d) = 0
            /\ TreesDrawn(FreshRun.out, TheTree, d) = 1

\* C14 amended: in a human-mode run that has returned, an identity whose tree
\* display was attempted by an earlier run on the same Presenter has no tree;
\* the run of a fresh Presenter on the same report draws that tree once if
\* showTree resolves to true and that run returns, and not at all if showTree
\* is false.
C14_SecondRunLosesTreeIfShown ==
    HumanReturned =>
        \A d \in AttemptedBefore :
            /\ TreesDrawn(out, TheTree, d) = 0
            /\ (ShowTree /\ ~FreshRun.panicked) => TreesDrawn(FreshRun.out, TheTree, d) = 1
            /\ ~ShowTree => TreesDrawn(FreshRun.out, TheTree, d) = 0

C14_Witness ==
    /\ HumanReturned /\ ShowTree
    /\ pre = {DepFoo}
    /\ FindingPackages(report) = {DepFoo, DepBar}
    /\ ~FreshRun.panicked
    /\ TreesDrawn(out, TheTree, DepFoo) = 0
    /\ TreesDrawn(out, TheTree, DepBar) = 1
    /\ TreesDrawn(FreshRun.out, TheTree, DepFoo) = 1

(***************************************************************************)
(* C15                                                                     *)
(***************************************************************************)
\* The lines the step adds to the output.
Added == SubSeq(out', Len(out) + 1, Len(out'))

\* s without the URL line that may stand at its position n.
WithoutUrlAt(s, n) ==
    IF Len(s) >= n /\ IsUrlLine(s[n]) THEN SubSeq(s, 1, n - 1) \o SubSeq(s, n + 1, Len(s))
    ELSE s

\* C15 (step part).  The attribute step of a vulnerability adds a blank
\* line, then ID, Crate, Version, Date, the URL line if any, Title and
\* Solution, and is followed by the print_tree step of the same entry; the
\* attribute step of a warning adds a blank line, then Crate, Title, Date and
\* the URL line if any, and is followed by the print_tree step of the same
\* entry.  A print_tree step adds nothing but a tree header and tree lines
\* and either ends the run or moves on to the next entry.
C15_BlockSteps ==
    /\ (pc = "vulnerabilities" /\ pc' = "vulnerability_tree") =>
          LET v == report.vulnerabilities.list[idx] IN
          /\ IsPrefix(out, out') /\ idx' = idx
          /\ Added[1] = BlankLine
          /\ Labels(WithoutUrlAt(Tail(Added), 5)) =
                <<"ID:      ", "Crate:   ", "Version: ", "Date:    ",
                  "Title:   ", "Solution: upgrade to">>
          /\ SubSeq(Contents(WithoutUrlAt(Tail(Added), 5)), 1, 5) =
                <<v.advisory.id.str, v.package.name, VersionToString(v.package.version),
                  v.advisory.date, v.advisory.title>>
    /\ (pc = "warnings" /\ pc' = "warning_tree") =>
          LET w == report.warnings[idx] IN
          /\ IsPrefix(out, out') /\ idx' = idx
          /\ Added[1] = BlankLine
          /\ Labels(WithoutUrlAt(Tail(Added), 4)) = <<"Crate:   ", "Title: ", "Date:    ">>
          /\ Contents(WithoutUrlAt(Tail(Added), 4)) =
                <<w.package.name, w.advisory.title, w.advisory.date>>
    /\ pc \in {"vulnerability_tree", "warning_tree"} =>
          /\ IsPrefix(out, out')
          /\ \A i \in 1..Len(Added) : IsTreePart(Added[i])
          /\ displayed_packages' \subseteq displayed_packages \cup {TreeCallFor}
          /\ \/ pc' = "panicked"
             \/ /\ idx' = idx + 1
                /\ pc' = (IF pc = "vulnerability_tree" THEN "vulnerabilities" ELSE "warnings")
    /\ pc' \in {"vulnerability_tree", "warning_tree"} =>
          pc = (IF pc' = "vulnerability_tree" THEN "vulnerabilities" ELSE "warnings")

\* C15: every step of a run is such a step, so that each finding has one
\* block, ended by its one print_tree call.
C15_BlockOrder == [][C15_BlockSteps]_vars

C15_Witness ==
    /\ HumanReturned /\ ShowTree
    /\ Len(report.vulnerabilities.list) = 2
    /\ report.vulnerabilities.list[1] = VulnBar
    /\ report.vulnerabilities.list[2] = VulnFoo
    /\ Len(report.warnings) = 1
    /\ Len(UrlLines(out)) = 2
    /\ Len(SelectSeq(out, IsTreeHeader)) = 2

(***************************************************************************)
(* C16                                                                     *)
(***************************************************************************)
WarningHeaders(o) == SelectSeq(o, LAMBDA e : e = WarningHeaderLine)

\* C16: a human-mode run never writes the warning header twice; when it has
\* returned it has written the header once if warnings is not empty and not
\* at all if it is empty, whatever found is.  With found = false and
\* warnings not empty the output starts with the success line, holds the
\* warning header after a blank line (right after the success line when
\* vulnerabilities.list is empty), then the warning blocks, and no count line.
C16_WarningsWithoutFound ==
    (InReport /\ Human) =>
        /\ Len(WarningHeaders(out)) <= 1
        /\ pc = "returned" =>
              Len(WarningHeaders(out)) = (IF report.warnings # <<>> THEN 1 ELSE 0)
        /\ (pc = "returned" /\ ~report.vulnerabilities.found /\ report.warnings # <<>>) =>
              LET nv == Len(report.vulnerabilities.list) IN
              /\ out[1] = SuccessLine
              /\ Section(out, nv + 1) = <<WarningHeaderLine>>
              /\ nv = 0 => SubSeq(out, 1, 3) = <<SuccessLine, BlankLine, WarningHeaderLine>>
              /\ Len(Blanks(out)) = nv + 1 + Len(report.warnings)
              /\ \A i \in 1..Len(out) : ~IsCountLine(out[i])

C16_Witness ==
    /\ HumanReturned
    /\ ~report.vulnerabilities.found
    /\ report.vulnerabilities.list = <<>>
    /\ Len(report.warnings) = 2
    /\ SubSeq(out, 1, 3) = <<SuccessLine, BlankLine, WarningHeaderLine>>

(***************************************************************************)
(* C17                                                                     *)
(***************************************************************************)
\* C17: in a human-mode run, the header of the drawn tree of an identity is
\* Red if a vulnerability of the report is about that identity, and Yellow
\* if only warnings are.
C17_HeaderColor ==
    (InReport /\ Human /\ TreeOk(lockfile)) =>
        \A d \in FindingPackages(report) : \A i \in 1..Len(out) :
            DrawnAt(out, TheTree, i, d) =>
                out[i].color = (IF d \in VulnerabilityPackages(report) THEN "Red"
                                ELSE "Yellow")

C17_Witness ==
    /\ HumanReturned /\ ShowTree
    /\ VulnerabilityPackages(report) = {DepFoo}
    /\ WarningPackages(report) = {DepFoo, DepBar}
    /\ \E i, j \in 1..Len(out) :
          /\ DrawnAt(out, TheTree, i, DepFoo) /\ out[i].color = "Red"
          /\ DrawnAt(out, TheTree, j, DepBar) /\ out[j].color = "Yellow"

(***************************************************************************)
(* C18                                                                     *)
(***************************************************************************)
\* The print_tree call about to be made is for a package that is no node of
\* the tree.
MissingNode == TreeCallFor \notin TreeNodes(tree)

\* C18 (step part): a print_tree call panics exactly when the package is no
\* node of the tree, showTree resolves to true and the identity is not in
\* displayed_packages; by then the header is the last line written, after
\* the finding's attribute lines, and the identity has been inserted.
C18_PanicStep ==
    pc \in {"vulnerability_tree", "warning_tree"} =>
        /\ pc' = "panicked" <=>
              (MissingNode /\ ShowTree /\ TreeCallFor \notin displayed_packages)
        /\ pc' = "panicked" =>
              /\ displayed_packages' = displayed_packages \cup {TreeCallFor}
              /\ Len(out') = Len(out) + 1
              /\ IsPrefix(out, out')
              /\ IsTreeHeader(out'[Len(out')])
              /\ out[Len(out)].kind = "attr" /\ ~IsTreeHeader(out[Len(out)])

\* C18 (state part): a run on a lockfile whose tree can be built does not
\* panic when show_tree is false, nor when every finding's package that is
\* no node of the tree was already in displayed_packages when it began.
C18_NoPanicOtherwise ==
    (InReport /\ Human /\ TreeOk(lockfile)
       /\ (~ShowTree \/ (FindingPackages(report) \ TreeNodes(TheTree)) \subseteq pre))
    => pc # "panicked"

\* C18: both parts.
C18_MissingNodeAbort == [](C18_NoPanicOtherwise) /\ [][C18_PanicStep]_vars

C18_Witness ==
    /\ InReport /\ Human /\ TreeOk(lockfile) /\ pc = "panicked"
    /\ Len(report.warnings) >= 1 /\ idx = 1
    /\ Len(report.vulnerabilities.list) >= 1
    /\ IsTreeHeader(out[Len(out)])
    /\ DepBar \in displayed_packages \ pre

\* A report with a finding for a package that is no node, presented to the
\* end because show_tree is false.
C18_WitnessCompleted ==
    /\ HumanReturned /\ ~ShowTree
    /\ DepBar \in FindingPackages(report) \ TreeNodes(TheTree)
    /\ DepBar \notin pre

====
